---------------------------- MODULE Spec2Model ----------------------------
(***************************************************************************)
(* Rate limiting of the phone-validation API.                              *)
(*                                                                         *)
(* The pieces of the repository that are modelled, one per value of        *)
(* variant:                                                                *)
(*   "memory"  the hand-rolled limiter of src/middleware/rate-limiter.ts,  *)
(*             one limiter instance whose store lives in its closure;      *)
(*   "kv"      the WorkersKVStore adapter (get, increment, decrement,      *)
(*             resetKey) over a Workers KV namespace;                      *)
(*   "route"   the phone-validation route that builds a hand-rolled        *)
(*             limiter inside its per-request middleware;                  *)
(*   "serial"  WorkersKVStore.increment called again and again, one call   *)
(*             at a time;                                                  *)
(*   "keys"    the key generators and the limit function of the limiters,  *)
(*             applied to one request;                                     *)
(*   "guard"   phoneValidationRateLimit, the wrapper around the            *)
(*             widget-aware limiter;                                       *)
(*   "prefixes" two requests whose records go to one KV namespace, with    *)
(*             the stored key every limiter factory gives them;            *)
(*   "request" callers of WorkersKVStore that take back with decrement     *)
(*             the increment they made;                                    *)
(*   "widget"  the widget-aware limiter, given the requests of one client  *)
(*             in one window.                                              *)
(* Time is in milliseconds, as Date.now() gives it.  A request is handled  *)
(* by one of the processes of Procs; JavaScript runs a handler without     *)
(* interruption up to its next await, so an action is the code between two *)
(* awaits.                                                                 *)
(***************************************************************************)
EXTENDS Integers, Sequences, FiniteSets, TLC

(***************************************************************************)
(* Bounds of the model.                                                    *)
(***************************************************************************)
NumProcs == 2        \* requests in flight at the same time
MaxLimit == 2        \* the limiter's max ranges over 1..MaxLimit
MaxHits == 2         \* WorkersKVStore.increment is not called beyond this count

Procs == 1..NumProcs
Keys == {"ip1", "ip2"}
None == "none"
\* no record object: what store[key] is before the first request of a key
NoRecord == <<>>

(***************************************************************************)
(* Program constants.                                                      *)
(***************************************************************************)
MsPerSecond == 1000
TooManyRequests == 429
ErrorStatusFloor == 400

\* c.res.status as the limiter reads it after the downstream handler
Statuses == {200, 400}
\* what a downstream handler throws
Errors == {"HTTPException", "TypeError"}
\* windowMs a limiter is configured with
WindowChoices == {60000}
\* windowMs a WorkersKVStore is initialised with
KVWindowChoices == {60000}
\* Date.now() when the first request arrives, and the later instants at which
\* the program runs.  For a window of 60000 opened at the start, which ends at
\* 61500: one second before its end, half a second before it (in the second
\* in which it ends), its end to the millisecond, and half a second after it
StartTimes == {1500}
Instants == {60500, 61000, 61500, 62000}

Max(a, b) == IF a >= b THEN a ELSE b
\* Math.ceil(a / b) and Math.floor(a / b) for b > 0
Ceil(a, b) == -((-a) \div b)
Floor(a, b) == a \div b

VARIABLES
    variant,                 \* which piece of the repository runs
    clock,                   \* Date.now()
    windowMs, max,           \* options of the limiter instance
    skipSuccessfulRequests, skipFailedRequests,
    store,                   \* rate-limiter.ts: key -> record object, or NoRecord
    heap,                    \* the record objects: id -> [count, resetTime]
    pc,                      \* where each request is
    key,                     \* the key of the request a process handles
    record,                  \* the request's const record (an object id)
    ord,                     \* history: requests admitted on the record so far
    solo,                    \* history: no other request of the key was in flight
    error,                   \* what the request's await next() has thrown, if anything
    res,                     \* the response the last step gave its caller, if any
    namespace,               \* the KV namespace: stored key -> entry, or NoEntry
    existing,                \* WorkersKVStore: what a call's await this.get(key) gave
    now,                     \* WorkersKVStore: the const now of a call
    ret,                     \* what the WorkersKVStore call ended by the last step returned
    streak,                  \* history: the increment calls of a key's first window
    nodeEnv,                 \* the route: NODE_ENV
    served,                  \* history, the route: requests of a client that were
                             \* admitted and stayed counted
    req,                     \* the key generators: the request they are given
    out,                     \* the key generators: what each of them made of req
    binding,                 \* phoneValidationRateLimit: the RATE_LIMIT_KV of env(c)
    guard                    \* phoneValidationRateLimit: the course of each request

vars == <<variant, clock, windowMs, max, skipSuccessfulRequests,
          skipFailedRequests, store, heap, pc, key, record, ord, solo, error, res,
          namespace, existing, now, ret, streak, nodeEnv, served,
          req, out, binding, guard>>

limiterVars == <<store, heap, record, ord, solo, error, res>>
kvVars == <<namespace, existing, now, ret, streak>>
edgeVars == <<req, out, binding, guard>>
routeVars == <<nodeEnv, served, edgeVars>>

configVars == <<variant, windowMs, max, skipSuccessfulRequests, skipFailedRequests>>

(***************************************************************************)
(* The hand-rolled limiter, rate-limiter.ts.                               *)
(***************************************************************************)
\* no response: the step was not the end of a request.  key, ord and
\* solo say which request a response answers and are no part of it.
NoResponse ==
    [kind |-> "none", status |-> 0, retryAfter |-> -1, limit |-> -1,
     windowMs |-> -1, remaining |-> -1, reset |-> -1,
     error |-> None, key |-> None, ord |-> 0, solo |-> TRUE]

\* if (store[key] && now > store[key].resetTime)
Expired(rec, t) == t > rec.resetTime

\* store[key] = { count: 0, resetTime: now + windowMs }; admitted is history
NewRecord(t, w) == [count |-> 0, resetTime |-> t + w, admitted |-> 0]

\* a limiter that would let one request more through: rec.count > max
LimitExceededStrict(rec, m) == rec.count > m

\* if (record.count >= max)
LimitExceeded(rec, m) == rec.count >= m

\* const resetIn = Math.ceil((record.resetTime - now) / 1000)
ResetIn(rec, t) == Ceil(rec.resetTime - t, MsPerSecond)

\* the HTTPException(429) the limiter throws: body and headers
Rejection(rec, t, m, w) ==
    [NoResponse EXCEPT !.kind = "rejected", !.status = TooManyRequests,
                       !.retryAfter = ResetIn(rec, t), !.limit = m,
                       !.windowMs = w \div MsPerSecond, !.remaining = 0,
                       !.reset = Ceil(rec.resetTime, MsPerSecond)]

\* record.count++
Counted(rec) == [rec EXCEPT !.count = @ + 1]

\* a limiter that would count every request and reject none
IntakeUnchecked(rec, m) == [admitted |-> TRUE, record |-> Counted(rec)]

\* a limiter that would count the request before comparing with max
IntakeCountFirst(rec, m) ==
    IF Counted(rec).count > m
    THEN [admitted |-> FALSE, record |-> Counted(rec)]
    ELSE [admitted |-> TRUE, record |-> Counted(rec)]

\* lines 59-89: the request is rejected and the record left as it is, or
\* admitted and counted
Intake(rec, m) ==
    IF LimitExceeded(rec, m)
    THEN [admitted |-> FALSE, record |-> rec]
    ELSE [admitted |-> TRUE, record |-> Counted(rec)]

\* history: one more request admitted on the record; kept for a limiter without
\* skip policy, where every admitted request stays counted
Seen(rec) ==
    IF skipSuccessfulRequests \/ skipFailedRequests THEN rec
    ELSE [rec EXCEPT !.admitted = @ + 1]

\* record.count--
Uncounted(rec) == [rec EXCEPT !.count = @ - 1]

\* after await next(): skipSuccessfulRequests && c.res.status < 400
SkipSuccess(skip, status) == skip /\ status < ErrorStatusFloor

\* in catch: skipFailedRequests && c.res.status >= 400
SkipFailure(skip, status) == skip /\ status >= ErrorStatusFloor

\* const remaining = Math.max(0, max - record.count)
Remaining(rec, m) == Max(0, m - rec.count)

\* the X-RateLimit-* headers set on c.res once next() has returned
Augmented(rec, status, m) ==
    [NoResponse EXCEPT !.kind = "ok", !.status = status, !.limit = m,
                       !.remaining = Remaining(rec, m),
                       !.reset = Ceil(rec.resetTime, MsPerSecond)]

\* a catch block that would throw an error of its own in place of the handler's
RethrownAsHTTPException(status, e) ==
    [NoResponse EXCEPT !.kind = "error", !.status = status, !.error = "HTTPException"]

\* the error of the downstream handler, thrown on to the caller
Rethrown(status, e) ==
    [NoResponse EXCEPT !.kind = "error", !.status = status, !.error = e]

\* which request a response answers
For(r, k, n, alone) == [r EXCEPT !.key = k, !.ord = n, !.solo = alone]

\* the objects still reachable: from the store or from a request in flight
Reachable(h, st, refs) ==
    [id \in {i \in DOMAIN h : (\E k \in Keys : st[k] = i) \/ i \in refs} |-> h[id]]

InFlight(p) == pc[p] = "downstream"
RefsExcept(p) == {record[q] : q \in {r \in Procs \ {p} : InFlight(r)}}

\* a cleanup that would sweep the expired entries of all keys
CleanedAll(st, h, k, t) ==
    [o \in DOMAIN st |->
        IF st[o] # NoRecord /\ Expired(h[st[o]], t) THEN NoRecord ELSE st[o]]

\* lines 44-47: the store once the expired entry of k is deleted
Cleaned(st, h, k, t) ==
    IF st[k] # NoRecord /\ Expired(h[st[k]], t) THEN [st EXCEPT ![k] = NoRecord] ELSE st

\* the middleware up to await next(): lines 41-89
Enter(p, k) ==
    /\ variant = "memory"
    /\ pc[p] = "idle"
    /\ LET t == clock
           st1 == Cleaned(store, heap, k, t)
           id == IF st1[k] = NoRecord THEN <<k, t>> ELSE st1[k]
           h1 == IF st1[k] = NoRecord THEN (id :> NewRecord(t, windowMs)) @@ heap ELSE heap
           st2 == [st1 EXCEPT ![k] = id]
           rec == h1[id]
           in == Intake(rec, max)
           others == {q \in Procs \ {p} : InFlight(q) /\ key[q] = k}
       IN  /\ store' = st2
           /\ IF ~in.admitted
              THEN /\ heap' = Reachable([h1 EXCEPT ![id] = in.record], st2, RefsExcept(p))
                   /\ res' = For(Rejection(in.record, t, max, windowMs), k,
                                 rec.admitted, others = {})
                   /\ UNCHANGED <<pc, key, record, ord, solo>>
              ELSE /\ heap' = Reachable([h1 EXCEPT ![id] = Seen(in.record)], st2,
                                        RefsExcept(p) \cup {id})
                   /\ res' = NoResponse
                   /\ pc' = [pc EXCEPT ![p] = "downstream"]
                   /\ key' = [key EXCEPT ![p] = k]
                   /\ record' = [record EXCEPT ![p] = id]
                   /\ ord' = [ord EXCEPT ![p] = rec.admitted + 1]
                   /\ solo' = [q \in Procs |->
                                 IF q = p THEN others = {}
                                 ELSE IF q \in others THEN FALSE ELSE solo[q]]
    /\ UNCHANGED <<clock, configVars, error, kvVars, routeVars>>

\* the request of p is over
Left(p) ==
    /\ pc' = [pc EXCEPT ![p] = "idle"]
    /\ key' = [key EXCEPT ![p] = None]
    /\ record' = [record EXCEPT ![p] = NoRecord]
    /\ ord' = [ord EXCEPT ![p] = 0]
    /\ solo' = [solo EXCEPT ![p] = TRUE]
    /\ error' = [error EXCEPT ![p] = None]

\* the downstream handler throws e: the promise of await next() is rejected,
\* and the catch block of line 98 runs in a later turn
Throws(p, e) ==
    /\ variant = "memory"
    /\ pc[p] = "downstream"
    /\ error[p] = None
    /\ error' = [error EXCEPT ![p] = e]
    /\ res' = NoResponse
    /\ UNCHANGED <<clock, configVars, store, heap, pc, key, record, ord, solo,
                   kvVars, routeVars>>

\* next() returned: lines 92-97 and 106-113
Returned(p, status) ==
    /\ variant = "memory"
    /\ pc[p] = "downstream"
    /\ error[p] = None
    /\ LET id == record[p]
           rec == IF SkipSuccess(skipSuccessfulRequests, status)
                  THEN Uncounted(heap[id]) ELSE heap[id]
       IN  /\ heap' = Reachable([heap EXCEPT ![id] = rec], store, RefsExcept(p))
           /\ res' = For(Augmented(rec, status, max), key[p], ord[p], solo[p])
    /\ Left(p)
    /\ UNCHANGED <<clock, configVars, store, kvVars, routeVars>>

\* next() threw: lines 98-104
Threw(p, status) ==
    /\ variant = "memory"
    /\ pc[p] = "downstream"
    /\ error[p] # None
    /\ LET id == record[p]
           rec == IF SkipFailure(skipFailedRequests, status)
                  THEN Uncounted(heap[id]) ELSE heap[id]
       IN  heap' = Reachable([heap EXCEPT ![id] = rec], store, RefsExcept(p))
    /\ res' = For(Rethrown(status, error[p]), key[p], ord[p], solo[p])
    /\ Left(p)
    /\ UNCHANGED <<clock, configVars, store, kvVars, routeVars>>

(***************************************************************************)
(* WorkersKVStore over a Workers KV namespace.                             *)
(***************************************************************************)
\* this.prefix = options.prefix ?? 'hrl:'
prefix == "hrl:"

\* private windowMs: number = 60000, before init(options) sets it
DefaultWindowMs == 60000

\* const minExpiration = now + 60000
MinExpirationMs == 60000

\* prefixKey(key): `${this.prefix}${key}`
PrefixKey(k) == <<prefix, k>>

StoredKeys == {PrefixKey(k) : k \in Keys}

\* JSON.stringify of a Date is its ISO string, which names the second and the
\* millisecond; new Date(string) reads it back
ToISOString(t) == [s |-> t \div MsPerSecond, ms |-> t % MsPerSecond]
DateOf(iso) == iso.s * MsPerSecond + iso.ms

\* a StoredData, and the undefined that get(key) gives for a key not stored
Data(n, t) == [defined |-> TRUE, totalHits |-> n, resetTime |-> t]
Undefined == [defined |-> FALSE, totalHits |-> 0, resetTime |-> 0]

\* no entry under a stored key
NoEntry ==
    [present |-> FALSE, value |-> [totalHits |-> 0, resetTime |-> [s |-> 0, ms |-> 0]],
     expiration |-> 0]

\* JSON.stringify(data)
Stringify(data) ==
    [totalHits |-> data.totalHits, resetTime |-> ToISOString(data.resetTime)]

\* KV drops an entry once its expiration, in epoch seconds, is reached
Purged(ns, t) ==
    [sk \in DOMAIN ns |->
        IF ns[sk].present /\ t >= ns[sk].expiration * MsPerSecond THEN NoEntry ELSE ns[sk]]

\* this.namespace.put(key, value, { expiration })
NamespacePut(ns, sk, value, expiration) ==
    [ns EXCEPT ![sk] = [present |-> TRUE, value |-> value, expiration |-> expiration]]

\* a delete that would only drop an entry whose record is past its resetTime
NamespaceDeleteExpired(ns, sk) ==
    IF ns[sk].present /\ DateOf(ns[sk].value.resetTime) > clock THEN ns
    ELSE [ns EXCEPT ![sk] = NoEntry]

\* this.namespace.delete(key)
NamespaceDelete(ns, sk) == [ns EXCEPT ![sk] = NoEntry]

\* get(key): lines 49-59
StoreGet(ns, k) ==
    LET stored == ns[PrefixKey(k)]
    IN  IF stored.present
        THEN Data(stored.value.totalHits, DateOf(stored.value.resetTime))
        ELSE Undefined

\* an increment that would keep counting on a record whose resetTime has passed
IncrementDataStale(ex, t, w) ==
    IF ex.defined THEN Data(ex.totalHits + 1, ex.resetTime) ELSE Data(1, t + w)

\* an increment that would count every call as the first of the window
IncrementDataRestart(ex, t, w) ==
    IF ex.defined /\ ex.resetTime > t THEN Data(1, ex.resetTime) ELSE Data(1, t + w)

\* increment: the data of lines 63-86
IncrementData(ex, t, w) ==
    IF ex.defined /\ ex.resetTime > t
    THEN Data(ex.totalHits + 1, ex.resetTime)
    ELSE Data(1, t + w)

\* Math.floor(Math.max(expirationTime, now + 60000) / 1000): lines 89-96, 115-121
SafeExpiration(resetTime, t) ==
    Floor(Max(resetTime, t + MinExpirationMs), MsPerSecond)

\* a decrement that would also write back a record whose resetTime has passed
DecrementAppliesAlways(ex, t) == ex.defined

\* decrement: if (existing && existing.resetTime) ... getTime() > now
DecrementApplies(ex, t) == ex.defined /\ ex.resetTime > t

\* a decrement without the floor at zero
DecrementDataUnclamped(ex) == Data(ex.totalHits - 1, ex.resetTime)

\* decrement: the data of lines 109-112
DecrementData(ex) == Data(Max(0, ex.totalHits - 1), ex.resetTime)

\* how a call ended: the data it returned or put (value), the now it ran at
\* and, when it put an entry, the expiration it gave (0: it put nothing)
NoReturn ==
    [op |-> "none", key |-> None, value |-> Undefined, at |-> 0, expiration |-> 0]
Return(op, k, v, t, e) ==
    [op |-> op, key |-> k, value |-> v, at |-> t, expiration |-> e]

\* what the caller of increment(key) has of the window its request was counted
\* in: the key, and the resetTime of the data that increment returned (line 99)
CountedIn(k, data) == <<k, data.resetTime>>

Calling(k) == {q \in Procs : pc[q] # "idle" /\ key[q] = k}

\* history of the calls of SpecSerial: n calls of increment(key) were made, one
\* after another, the first at end - windowMs and all of them before end, and
\* KV dropped no entry of the key since the first
NoStreak == [n |-> 0, end |-> 0]
Streak(st, t, w) ==
    IF st.n = 0 \/ t >= st.end THEN [n |-> 1, end |-> t + w]
    ELSE [st EXCEPT !.n = @ + 1]
Unbroken(st, ns, k) == IF ns[PrefixKey(k)].present THEN st ELSE NoStreak

\* await store.get(key), as a call of its own
Get(p, k) ==
    /\ variant = "kv"
    /\ pc[p] = "idle"
    /\ ret' = Return("get", k, StoreGet(namespace, k), clock, 0)
    /\ UNCHANGED <<clock, configVars, limiterVars, pc, key, namespace, existing, now,
                   streak, routeVars>>

\* increment(key) up to the end of await this.get(key): lines 62-70
IncrementGet(p, k) ==
    /\ variant \in {"kv", "serial", "request"}
    /\ pc[p] = "idle"
    /\ variant = "serial" => \A q \in Procs : pc[q] = "idle"
    /\ variant = "request" => record[p] = NoRecord
    /\ LET ex == StoreGet(namespace, k)
       IN  /\ ex.defined => ex.totalHits < MaxHits
           /\ existing' = [existing EXCEPT ![p] = ex]
    /\ now' = [now EXCEPT ![p] = clock]
    /\ pc' = [pc EXCEPT ![p] = "increment"]
    /\ key' = [key EXCEPT ![p] = k]
    /\ ret' = NoReturn
    /\ UNCHANGED <<clock, configVars, limiterVars, namespace, streak, routeVars>>

\* increment(key) from there to its return: lines 71-99
IncrementPut(p) ==
    /\ variant \in {"kv", "serial", "request"}
    /\ pc[p] = "increment"
    /\ LET k == key[p]
           data == IncrementData(existing[p], now[p], windowMs)
       IN  /\ namespace' = Purged(NamespacePut(namespace, PrefixKey(k), Stringify(data),
                                  SafeExpiration(data.resetTime, now[p])), clock)
           /\ ret' = Return("increment", k, data, now[p],
                         SafeExpiration(data.resetTime, now[p]))
           /\ streak' = IF variant = "serial"
                        THEN [streak EXCEPT ![k] =
                                Unbroken(Streak(@, now[p], windowMs), namespace', k)]
                        ELSE streak
           /\ record' = IF variant = "request"
                        THEN [record EXCEPT ![p] = CountedIn(k, data)]
                        ELSE record
    /\ pc' = [pc EXCEPT ![p] = "idle"]
    /\ key' = [key EXCEPT ![p] = None]
    /\ existing' = [existing EXCEPT ![p] = Undefined]
    /\ now' = [now EXCEPT ![p] = 0]
    /\ UNCHANGED <<clock, configVars, store, heap, ord, solo, error, res, routeVars>>

\* decrement(key) up to the end of await this.get(key): line 103
DecrementGet(p, k) ==
    /\ variant \in {"kv", "request"}
    /\ pc[p] = "idle"
    /\ variant = "request" => (record[p] # NoRecord /\ record[p][1] = k)
    /\ existing' = [existing EXCEPT ![p] = StoreGet(namespace, k)]
    /\ pc' = [pc EXCEPT ![p] = "decrement"]
    /\ key' = [key EXCEPT ![p] = k]
    /\ ret' = NoReturn
    /\ UNCHANGED <<clock, configVars, limiterVars, namespace, now, streak, routeVars>>

\* decrement(key) from there to its return: lines 104-124
DecrementPut(p) ==
    /\ variant \in {"kv", "request"}
    /\ pc[p] = "decrement"
    /\ LET k == key[p]
           t == clock
           ex == existing[p]
       IN  /\ namespace' =
                IF DecrementApplies(ex, t)
                THEN NamespacePut(namespace, PrefixKey(k), Stringify(DecrementData(ex)),
                                  SafeExpiration(ex.resetTime, t))
                ELSE namespace
           /\ ret' = IF DecrementApplies(ex, t)
                     THEN Return("decrement", k, DecrementData(ex), t,
                                 SafeExpiration(ex.resetTime, t))
                     ELSE Return("decrement", k, Undefined, t, 0)
    /\ pc' = [pc EXCEPT ![p] = "idle"]
    /\ key' = [key EXCEPT ![p] = None]
    /\ existing' = [existing EXCEPT ![p] = Undefined]
    /\ record' = [record EXCEPT ![p] = NoRecord]
    /\ UNCHANGED <<clock, configVars, store, heap, ord, solo, error, res, now, streak,
                   routeVars>>

\* the caller of increment(key) ends without a decrement: its request stays
\* counted
Keep(p) ==
    /\ variant = "request"
    /\ pc[p] = "idle"
    /\ record[p] # NoRecord
    /\ record' = [record EXCEPT ![p] = NoRecord]
    /\ ret' = NoReturn
    /\ UNCHANGED <<clock, configVars, store, heap, pc, key, ord, solo, error, res,
                   namespace, existing, now, streak, routeVars>>

\* resetKey(key): lines 127-129
ResetKey(p, k) ==
    /\ variant = "kv"
    /\ pc[p] = "idle"
    /\ namespace' = NamespaceDelete(namespace, PrefixKey(k))
    /\ ret' = Return("resetKey", k, Undefined, clock, 0)
    /\ UNCHANGED <<clock, configVars, limiterVars, pc, key, existing, now, streak,
                   routeVars>>

\* time passes between two steps of the program, and KV drops what expired
Tick(t) ==
    /\ t > clock
    /\ variant = "serial" => \A q \in Procs : pc[q] = "idle"
    /\ clock' = t
    /\ res' = NoResponse
    /\ ret' = NoReturn
    /\ namespace' = Purged(namespace, t)
    /\ streak' = IF variant = "serial"
                 THEN [k \in Keys |-> Unbroken(streak[k], namespace', k)]
                 ELSE streak
    /\ UNCHANGED <<configVars, store, heap, pc, key, record, ord, solo, error,
                   existing, now, routeVars>>

(***************************************************************************)
(* The phone-validation route of routes/phone-validation.ts, which builds  *)
(* its limiter inside the per-request middleware.                          *)
(***************************************************************************)
\* windowMs: 15 * 60 * 1000
RouteWindowMs == 900000
\* max: isDevelopment ? 100 : 10
RouteMaxDevelopment == 100
RouteMax == 10

\* const isDevelopment = NODE_ENV === 'development' || !NODE_ENV
IsDevelopment(e) == e = "development" \/ e = None

RouteLimit(e) == IF IsDevelopment(e) THEN RouteMaxDevelopment ELSE RouteMax

\* const store: RateLimitStore = {} of the rateLimiter(options) call
EmptyStore == [k \in Keys |-> NoRecord]

\* the record of the limiter built for the request of p
Private(p) == <<p>>

\* lines 110-131 up to the limiter's await next(): a new limiter, with a store
\* of its own, handles the request
RouteEnter(p, k) ==
    /\ variant = "route"
    /\ pc[p] = "idle"
    /\ served[k] <= RouteMax
    /\ LET t == clock
           m == RouteLimit(nodeEnv)
           st1 == Cleaned(EmptyStore, <<>>, k, t)
           rec == IF st1[k] = NoRecord THEN NewRecord(t, windowMs) ELSE heap[st1[k]]
           in == Intake(rec, m)
       IN  IF ~in.admitted
           THEN /\ res' = For(Rejection(in.record, t, m, windowMs), k, 0, TRUE)
                /\ UNCHANGED <<heap, pc, key, record>>
           ELSE /\ heap' = (Private(p) :> in.record) @@ heap
                /\ res' = NoResponse
                /\ pc' = [pc EXCEPT ![p] = "downstream"]
                /\ key' = [key EXCEPT ![p] = k]
                /\ record' = [record EXCEPT ![p] = Private(p)]
    /\ UNCHANGED <<clock, configVars, store, ord, solo, error, kvVars, routeVars>>

\* next() returned to the limiter of the request
RouteReturned(p, status) ==
    /\ variant = "route"
    /\ pc[p] = "downstream"
    /\ LET id == record[p]
           skipped == SkipSuccess(skipSuccessfulRequests, status)
           rec == IF skipped THEN Uncounted(heap[id]) ELSE heap[id]
       IN  /\ heap' = Reachable([heap EXCEPT ![id] = rec], store, RefsExcept(p))
           /\ res' = For(Augmented(rec, status, RouteLimit(nodeEnv)), key[p], 0, TRUE)
           /\ served' = IF skipped THEN served ELSE [served EXCEPT ![key[p]] = @ + 1]
    /\ Left(p)
    /\ UNCHANGED <<clock, configVars, store, kvVars, nodeEnv, edgeVars>>

\* next() threw to the limiter of the request
RouteThrew(p, status, e) ==
    /\ variant = "route"
    /\ pc[p] = "downstream"
    /\ LET id == record[p]
           skipped == SkipFailure(skipFailedRequests, status)
           rec == IF skipped THEN Uncounted(heap[id]) ELSE heap[id]
       IN  /\ heap' = Reachable([heap EXCEPT ![id] = rec], store, RefsExcept(p))
           /\ served' = IF skipped THEN served ELSE [served EXCEPT ![key[p]] = @ + 1]
    /\ res' = For(Rethrown(status, e), key[p], 0, TRUE)
    /\ Left(p)
    /\ UNCHANGED <<clock, configVars, store, kvVars, nodeEnv, edgeVars>>

(***************************************************************************)
(* The key generators and the limit function of the widget-aware limiters. *)
(* A header value is a sequence of the pieces that matter to the code that *)
(* reads it: the entries of a comma-separated list for an IP header, the   *)
(* parts of the URL text for Referer, the words for User-Agent.  None is a *)
(* header the request does not have.                                       *)
(***************************************************************************)
Environments == {"development", "staging", "production"}
TrustedDomain == "biodentalcare.com"
Scheme == "https://"
\* the pieces a path or a query starts with
PathStarts == {"/", "/?ref="}

\* c.req.header(name): undefined for a header the request does not have
Absent == [present |-> FALSE, text |-> <<>>]
Header(text) == [present |-> TRUE, text |-> text]

CfValues == {Absent, Header(<<"1.1.1.1">>)}
ForwardedValues == {Absent, Header(<<"2.2.2.2">>), Header(<<"2.2.2.2", "3.3.3.3">>)}
RealIpValues == {Absent, Header(<<"4.4.4.4">>)}
Referers ==
    {Absent,
     Header(<<Scheme, TrustedDomain, "/">>),
     Header(<<Scheme, "www.", TrustedDomain, "/">>),
     Header(<<Scheme, "clinic.example", "/">>),
     Header(<<Scheme, "evil.example", "/?ref=", TrustedDomain>>),
     Header(<<Scheme, TrustedDomain, ".evil.example", "/">>),
     Header(<<TrustedDomain>>),
     Header(<<"not a url">>)}
UserAgents ==
    {Absent, Header(<<"Mozilla/5.0">>), Header(<<"Google", "bot", "/2.1">>),
     Header(<<"My", "Spider">>)}

Requests ==
    [environment : Environments, cf : CfValues, xff : ForwardedValues,
     xreal : RealIpValues, referer : Referers, userAgent : UserAgents]
NoRequest ==
    [environment |-> None, cf |-> Absent, xff |-> Absent, xreal |-> Absent,
     referer |-> Absent, userAgent |-> Absent]

\* a || b: a when it is a string that is not empty, else b
Or(a, b) == IF a.present /\ a.text # <<>> THEN a ELSE b
\* a ?? b: a unless it is undefined
Coalesce(a, b) == IF a.present THEN a ELSE b
\* c.req.header('X-Forwarded-For')?.split(',')[0]
FirstEntry(h) ==
    IF ~h.present THEN Absent
    ELSE IF h.text = <<>> THEN Header(<<>>) ELSE Header(<<h.text[1]>>)
Unknown == <<"unknown">>

\* text.includes(piece), at the grain of the pieces
Includes(text, piece) == \E i \in DOMAIN text : text[i] = piece

\* new URL(referer) throws a TypeError for a text without a scheme
Parsable(text) == Len(text) > 0 /\ text[1] = Scheme
\* new URL(referer).hostname: what stands between the scheme and the path
Hostname(text) ==
    LET starts == {i \in DOMAIN text : text[i] \in PathStarts}
        last == IF starts = {} THEN Len(text)
                ELSE (CHOOSE i \in starts : \A j \in starts : i <= j) - 1
    IN  SubSeq(text, 2, last)

\* /bot|crawler|spider|scraper/i
BotWords == {"bot", "crawler", "spider", "scraper"}
LowerCase(w) == IF w = "Spider" THEN "spider" ELSE w
IsLikelyBot(text) == \E i \in DOMAIN text : LowerCase(text[i]) \in BotWords

\* rate-limiter.ts, defaultKeyGenerator
DefaultKey(rq) == Or(rq.cf, Or(rq.xff, Or(rq.xreal, Header(Unknown)))).text
\* phone-validation.ts, the keyGenerator the route passes
RouteKey(rq) ==
    Or(rq.cf, Or(FirstEntry(rq.xff), Or(rq.xreal, Header(Unknown)))).text
\* createStandardRateLimiter and createEnvironmentStandardRateLimiter
StandardKey(rq) == Coalesce(rq.cf, Header(<<>>)).text
\* advancedKeyGenerator
AdvancedClientIP(rq) ==
    Or(rq.cf, Or(FirstEntry(rq.xff), Or(rq.xreal, Header(Unknown)))).text
\* c.req.header('Referer') || '' and c.req.header('User-Agent') || ''
RefererText(rq) == Or(rq.referer, Header(<<>>)).text
UserAgentText(rq) == Or(rq.userAgent, Header(<<>>)).text
IsBiodentalcare(rq) == Includes(RefererText(rq), TrustedDomain)
AdvancedKey(rq) ==
    [prefix |-> IF IsBiodentalcare(rq) THEN "widget" ELSE "api",
     clientIP |-> AdvancedClientIP(rq)]
\* the keyGenerator of createStandardWidgetRateLimiter and of
\* createWidgetSecureRateLimiter
WidgetClientIP(rq) == Or(rq.cf, Or(FirstEntry(rq.xff), Header(Unknown))).text
WidgetKeyThrows(rq) == RefererText(rq) # <<>> /\ ~Parsable(RefererText(rq))
Direct == <<"direct">>
WidgetKey(rq) ==
    IF WidgetKeyThrows(rq)
    THEN [thrown |-> "TypeError", environment |-> None, clientIP |-> <<>>,
          refererDomain |-> <<>>, agent |-> None]
    ELSE [thrown |-> None,
          environment |-> rq.environment,
          clientIP |-> WidgetClientIP(rq),
          refererDomain |-> IF RefererText(rq) = <<>> THEN Direct
                            ELSE Hostname(RefererText(rq)),
          agent |-> IF IsLikelyBot(UserAgentText(rq)) THEN "bot" ELSE "human"]

\* the texts of the keys: `widget:${clientIP}` or `api:${clientIP}`, and
\* `${environment}:${clientIP}:${refererDomain}:${isBot ? 'bot' : 'human'}`
AdvancedKeyText(rq) == <<AdvancedKey(rq).prefix, ":">> \o AdvancedKey(rq).clientIP
WidgetKeyText(rq) ==
    <<WidgetKey(rq).environment, ":">> \o WidgetKey(rq).clientIP \o <<":">>
        \o WidgetKey(rq).refererDomain \o <<":", WidgetKey(rq).agent>>

\* the limiter factories that put their records in the KV namespace they are given
Factories == {"standard", "environment", "standardWidget", "advanced", "widgetSecure"}

\* the prefix each factory gives its WorkersKVStore, in the tier it runs in
StorePrefix(f, environment) ==
    CASE f = "standard" -> <<"hrl", ":">>
      [] f = "environment" -> <<"hrl", ":", environment, ":">>
      [] f = "standardWidget" -> <<"widget-", "hrl", ":", environment, ":">>
      [] f = "advanced" -> <<"rl", ":", environment, ":">>
      [] f = "widgetSecure" -> <<"widget-", "rl", ":">>

\* the key each factory's keyGenerator makes of a request
GeneratedKey(f, rq) ==
    CASE f \in {"standard", "environment"} -> StandardKey(rq)
      [] f = "advanced" -> AdvancedKeyText(rq)
      [] f \in {"standardWidget", "widgetSecure"} -> WidgetKeyText(rq)

\* no key is stored for a request whose key generator throws
NoFullKey == <<>>
\* prefixKey(key) of the factory's store: `${this.prefix}${key}`
FullKey(f, rq) ==
    IF f \in {"standardWidget", "widgetSecure"} /\ WidgetKeyThrows(rq) THEN NoFullKey
    ELSE StorePrefix(f, rq.environment) \o GeneratedKey(f, rq)

\* the limits of the widget-aware limiters
DevelopmentLimit == 500
TrustedLimit == 100
BotLimit == 5
GenericLimit == 20
\* a limit function that would look at the referer before the user agent
WidgetLimitRefererFirst(rq) ==
    IF rq.environment = "development" THEN DevelopmentLimit
    ELSE IF IsBiodentalcare(rq) THEN TrustedLimit
    ELSE IF IsLikelyBot(UserAgentText(rq)) THEN BotLimit
    ELSE GenericLimit

\* limit: (c) => ... of createStandardWidgetRateLimiter and of
\* createWidgetSecureRateLimiter
WidgetLimit(rq) ==
    IF rq.environment = "development" THEN DevelopmentLimit
    ELSE IF IsBiodentalcare(rq) /\ ~IsLikelyBot(UserAgentText(rq)) THEN TrustedLimit
    ELSE IF IsLikelyBot(UserAgentText(rq)) THEN BotLimit
    ELSE GenericLimit

NoOutput ==
    [made |-> FALSE, defaultKey |-> <<>>, routeKey |-> <<>>, standardKey |-> <<>>,
     advancedKey |-> [prefix |-> None, clientIP |-> <<>>],
     widgetKey |-> [thrown |-> None, environment |-> None, clientIP |-> <<>>,
                    refererDomain |-> <<>>, agent |-> None],
     limit |-> 0, tier |-> None, fullKey |-> [f \in Factories |-> NoFullKey]]
\* every generator and the limit function applied to the request
Generate ==
    /\ variant \in {"keys", "prefixes"}
    /\ ~out.made
    /\ out' = [made |-> TRUE,
               defaultKey |-> DefaultKey(req),
               routeKey |-> RouteKey(req),
               standardKey |-> StandardKey(req),
               advancedKey |-> AdvancedKey(req),
               widgetKey |-> WidgetKey(req),
               limit |-> WidgetLimit(req),
               tier |-> req.environment,
               fullKey |-> [f \in Factories |-> FullKey(f, req)]]
    /\ UNCHANGED <<clock, configVars, limiterVars, pc, key, kvVars, nodeEnv, served,
                   req, binding, guard>>

\* the requests that meet in one KV namespace: the tiers, and header values
\* made to look like what a prefix ends with
PrefixRequests ==
    [environment : Environments,
     cf : {Absent, Header(<<"1.1.1.1">>), Header(<<"production", ":", "1.1.1.1">>)},
     xff : {Absent, Header(<<"2.2.2.2">>)},
     xreal : {Absent},
     referer : {Absent, Header(<<Scheme, TrustedDomain, "/">>),
                Header(<<Scheme, "evil.example", "/">>),
                Header(<<Scheme, "evil.example", "/?ref=", TrustedDomain>>)},
     userAgent : {Absent, Header(<<"Google", "bot", "/2.1">>)}]

\* another request arrives, in whatever tier, after the one whose keys are in out
Arrive(rq) ==
    /\ variant = "prefixes"
    /\ out.made
    /\ req' = rq
    /\ UNCHANGED <<clock, configVars, limiterVars, pc, key, kvVars, nodeEnv, served,
                   out, binding, guard>>

\* windowMs outside development: 15 * 60 * 1000
WidgetWindowMs == 900000

\* the requests one client sends the widget-aware limiter in one window: its
\* cf-connecting-ip is set for it, Referer and User-Agent are as it likes
ClientIP == <<"1.1.1.1">>
WidgetReferers == {Absent, Header(<<Scheme, TrustedDomain, "/">>)}
WidgetUserAgents == {Absent, Header(<<"Google", "bot", "/2.1">>)}
WidgetRequest(environment, referer, userAgent) ==
    [NoRequest EXCEPT !.environment = environment, !.cf = Header(ClientIP),
                      !.referer = referer, !.userAgent = userAgent]

\* the hits the store holds under a key of the limiter
Hits(h, k) == IF k \in DOMAIN h THEN h[k].count ELSE 0

\* history: the requests of a client that are counted, over all of its keys
RECURSIVE SumHits(_, _)
SumHits(h, ks) ==
    IF ks = {} THEN 0
    ELSE LET k == CHOOSE x \in ks : TRUE
         IN  h[k].count + SumHits(h, ks \ {k})
CountedFor(h, ip) == SumHits(h, {k \in DOMAIN h : k.clientIP = ip})

\* rateLimiter({ limit, keyGenerator, store }) of the widget-aware factories:
\* a request is counted under the key the keyGenerator gives it and admitted
\* while the hits of that key are within the limit the limit function gives it
WidgetAdmit(referer, userAgent) ==
    /\ variant = "widget"
    /\ LET rq == WidgetRequest(nodeEnv, referer, userAgent)
           k == WidgetKey(rq)
       IN  /\ ~WidgetKeyThrows(rq)
           /\ Hits(heap, k) < WidgetLimit(rq)
           /\ heap' = (k :> [count |-> Hits(heap, k) + 1]) @@ heap
           /\ res' = [NoResponse EXCEPT !.kind = "ok", !.limit = WidgetLimit(rq)]
    /\ UNCHANGED <<clock, configVars, store, pc, key, record, ord, solo, error,
                   kvVars, routeVars>>

WidgetReject(referer, userAgent) ==
    /\ variant = "widget"
    /\ LET rq == WidgetRequest(nodeEnv, referer, userAgent)
           k == WidgetKey(rq)
       IN  /\ ~WidgetKeyThrows(rq)
           /\ Hits(heap, k) >= WidgetLimit(rq)
           /\ res' = [NoResponse EXCEPT !.kind = "rejected", !.status = TooManyRequests,
                                        !.limit = WidgetLimit(rq)]
    /\ UNCHANGED <<clock, configVars, store, heap, pc, key, record, ord, solo, error,
                   kvVars, routeVars>>

(***************************************************************************)
(* phoneValidationRateLimit, the wrapper that puts the widget-aware        *)
(* limiter in front of the handler.  The limiter it calls is the one of    *)
(* the hono-rate-limiter package, whose code is not in the repository:     *)
(* the model leaves open whether it rejects or admits a request and        *)
(* whether an operation of its store fails, and takes from the repository  *)
(* the key generator it is given and the next it is passed.                *)
(***************************************************************************)
\* the course of a request: calls counts the invocations of next(), logged the
\* console.log of a bypass, fault a failed KV operation, threw a handler that
\* threw, metered a request the limiter counted, headers the rate-limit
\* headers of the limiter
NoGuard ==
    [vite |-> FALSE, referer |-> Absent, calls |-> 0, logged |-> FALSE,
     fault |-> FALSE, threw |-> FALSE, metered |-> FALSE, headers |-> FALSE,
     outcome |-> "none", status |-> 0, error |-> None, ops |-> 0]

\* the referers of the requests the wrapper is given
GuardReferers ==
    {Absent, Header(<<Scheme, TrustedDomain, "/">>), Header(<<"not a url">>)}

\* a wrapper that would not look whether RATE_LIMIT_KV is there
AdmissionWithoutBindingCheck(isViteDev, b) == IF isViteDev THEN "bypass" ELSE "probe"

\* a wrapper that would not look at the URL of the request
AdmissionWithoutViteCheck(isViteDev, b) == IF b = "absent" THEN "bypass" ELSE "probe"

\* lines 165-182: where the request goes first
Admission(isViteDev, b) ==
    IF isViteDev THEN "bypass"
    ELSE IF b = "absent" THEN "bypass"
    ELSE "probe"

\* an operation on RATE_LIMIT_KV is issued for the request: the get of line
\* 187, or what the limiter of line 198 asks of its store
Operated(g) == [g EXCEPT !.ops = @ + 1]

\* console.log(...) and return await next() while still inside the outer try
Bypassing(g) == [g EXCEPT !.logged = TRUE, !.calls = @ + 1]
\* the outer catch: console.log(...) and return await next()
Fallback(g) == [g EXCEPT !.logged = TRUE, !.calls = @ + 1]

GuardArrive(p, isViteDev, referer) ==
    /\ variant = "guard"
    /\ pc[p] = "idle"
    /\ LET g == [NoGuard EXCEPT !.vite = isViteDev, !.referer = referer]
           to == Admission(isViteDev, binding)
       IN  /\ pc' = [pc EXCEPT ![p] = to]
           /\ guard' = [guard EXCEPT ![p] = IF to = "bypass" THEN Bypassing(g) ELSE g]
    /\ UNCHANGED <<clock, configVars, limiterVars, key, kvVars, nodeEnv, served,
                   req, out, binding>>

\* await RATE_LIMIT_KV.get('test-key') resolves: line 187, then 196-198
ProbeOk(p) ==
    /\ variant = "guard"
    /\ pc[p] = "probe"
    /\ pc' = [pc EXCEPT ![p] = "limiter"]
    /\ guard' = [guard EXCEPT ![p] = Operated(@)]
    /\ UNCHANGED <<clock, configVars, limiterVars, key, kvVars, nodeEnv, served,
                   req, out, binding>>

\* await RATE_LIMIT_KV.get('test-key') rejects: lines 188-191
ProbeFails(p) ==
    /\ variant = "guard"
    /\ pc[p] = "probe"
    /\ pc' = [pc EXCEPT ![p] = "bypass"]
    /\ guard' = [guard EXCEPT ![p] = Bypassing(Operated([@ EXCEPT !.fault = TRUE]))]
    /\ UNCHANGED <<clock, configVars, limiterVars, key, kvVars, nodeEnv, served,
                   req, out, binding>>

LimiterOutcomes == {"reject", "admit", "fault"}

\* limiter(c, next) up to its next(): the key generator, then the store
Limiter(p, outcome) ==
    /\ variant = "guard"
    /\ pc[p] = "limiter"
    /\ LET g == guard[p]
           thrown == WidgetKeyThrows([NoRequest EXCEPT !.referer = g.referer])
       IN  IF thrown
           THEN /\ pc' = [pc EXCEPT ![p] = "fallback"]
                /\ guard' = [guard EXCEPT ![p] = Fallback(g)]
           ELSE IF outcome = "fault"
           THEN /\ pc' = [pc EXCEPT ![p] = "fallback"]
                /\ guard' = [guard EXCEPT ![p] =
                               Fallback(Operated([g EXCEPT !.fault = TRUE]))]
           ELSE IF outcome = "reject"
           THEN /\ pc' = [pc EXCEPT ![p] = "idle"]
                /\ guard' = [guard EXCEPT ![p] =
                               Operated([g EXCEPT !.metered = TRUE, !.headers = TRUE,
                                                  !.outcome = "rejected",
                                                  !.status = TooManyRequests])]
           ELSE /\ pc' = [pc EXCEPT ![p] = "forwarded"]
                /\ guard' = [guard EXCEPT ![p] =
                               Operated([g EXCEPT !.metered = TRUE, !.calls = @ + 1])]
    /\ UNCHANGED <<clock, configVars, limiterVars, key, kvVars, nodeEnv, served,
                   req, out, binding>>

\* the handler behind next() returns a response
DownstreamReturns(p, status) ==
    /\ variant = "guard"
    /\ pc[p] \in {"bypass", "forwarded", "fallback"}
    /\ IF pc[p] = "forwarded"
       THEN /\ pc' = [pc EXCEPT ![p] = "settle"]
            /\ guard' = [guard EXCEPT ![p] = [@ EXCEPT !.status = status]]
       ELSE /\ pc' = [pc EXCEPT ![p] = "idle"]
            /\ guard' = [guard EXCEPT ![p] =
                           [@ EXCEPT !.outcome = "ok", !.status = status]]
    /\ UNCHANGED <<clock, configVars, limiterVars, key, kvVars, nodeEnv, served,
                   req, out, binding>>

\* the handler behind next() throws: inside the try the outer catch takes it
\* (line 199) and calls next() again; from the catch it goes to the caller
DownstreamThrows(p, e) ==
    /\ variant = "guard"
    /\ pc[p] \in {"bypass", "forwarded", "fallback"}
    /\ IF pc[p] = "fallback"
       THEN /\ pc' = [pc EXCEPT ![p] = "idle"]
            /\ guard' = [guard EXCEPT ![p] =
                           [@ EXCEPT !.outcome = "error", !.error = e, !.threw = TRUE]]
       ELSE /\ pc' = [pc EXCEPT ![p] = "fallback"]
            /\ guard' = [guard EXCEPT ![p] = Fallback([@ EXCEPT !.threw = TRUE])]
    /\ UNCHANGED <<clock, configVars, limiterVars, key, kvVars, nodeEnv, served,
                   req, out, binding>>

\* the limiter ends after its next() returned: it sets its headers
LimiterReturns(p) ==
    /\ variant = "guard"
    /\ pc[p] = "settle"
    /\ pc' = [pc EXCEPT ![p] = "idle"]
    /\ guard' = [guard EXCEPT ![p] = [@ EXCEPT !.outcome = "ok", !.headers = TRUE]]
    /\ UNCHANGED <<clock, configVars, limiterVars, key, kvVars, nodeEnv, served,
                   req, out, binding>>

\* an operation of the limiter's store fails after its next() returned
LimiterFaultAfter(p) ==
    /\ variant = "guard"
    /\ pc[p] = "settle"
    /\ pc' = [pc EXCEPT ![p] = "fallback"]
    /\ guard' = [guard EXCEPT ![p] = Fallback(Operated([@ EXCEPT !.fault = TRUE]))]
    /\ UNCHANGED <<clock, configVars, limiterVars, key, kvVars, nodeEnv, served,
                   req, out, binding>>

InitProcs ==
    /\ pc = [p \in Procs |-> "idle"]
    /\ key = [p \in Procs |-> None]
    /\ record = [p \in Procs |-> NoRecord]
    /\ ord = [p \in Procs |-> 0]
    /\ solo = [p \in Procs |-> TRUE]
    /\ error = [p \in Procs |-> None]
    /\ res = NoResponse
    /\ existing = [p \in Procs |-> Undefined]
    /\ now = [p \in Procs |-> 0]
    /\ ret = NoReturn
    /\ streak = [k \in Keys |-> NoStreak]
    /\ served = [k \in Keys |-> 0]
    /\ out = NoOutput
    /\ guard = [p \in Procs |-> NoGuard]

InitStores ==
    /\ store = EmptyStore
    /\ heap = <<>>
    /\ namespace = [sk \in StoredKeys |-> NoEntry]

\* neither a request for the key generators nor a wrapper
InitEdge ==
    /\ req = NoRequest
    /\ binding = None

\* rateLimiter(options): lines 28-38
InitLimiter ==
    /\ variant = "memory"
    /\ InitEdge
    /\ clock \in StartTimes
    /\ windowMs \in WindowChoices
    /\ max \in 1..MaxLimit
    /\ skipSuccessfulRequests \in BOOLEAN
    /\ skipFailedRequests \in BOOLEAN
    /\ nodeEnv = None
    /\ InitStores
    /\ InitProcs

\* new WorkersKVStore({ namespace }) and init({ windowMs }): lines 36-47
InitStore(v) ==
    /\ variant = v
    /\ InitEdge
    /\ clock \in StartTimes
    /\ windowMs \in KVWindowChoices
    /\ max = 0
    /\ skipSuccessfulRequests = FALSE
    /\ skipFailedRequests = FALSE
    /\ nodeEnv = None
    /\ InitStores
    /\ InitProcs

InitKV == InitStore("kv")
InitSerial == InitStore("serial")
InitRequest == InitStore("request")

\* the options the route gives rateLimiter on every request: lines 116-120
InitRoute ==
    /\ variant = "route"
    /\ InitEdge
    /\ clock \in StartTimes
    /\ nodeEnv \in {"development", "production", None}
    /\ windowMs = RouteWindowMs
    /\ max = RouteLimit(nodeEnv)
    /\ skipSuccessfulRequests = FALSE
    /\ skipFailedRequests = TRUE
    /\ InitStores
    /\ InitProcs

\* the generators and the limit function are given any request
InitKeys ==
    /\ variant = "keys"
    /\ clock \in StartTimes
    /\ windowMs \in WindowChoices
    /\ max = 0
    /\ skipSuccessfulRequests = FALSE
    /\ skipFailedRequests = FALSE
    /\ nodeEnv = None
    /\ req \in Requests
    /\ binding = None
    /\ InitStores
    /\ InitProcs

\* two requests, one after the other, whose records go to one KV namespace
InitPrefixes ==
    /\ variant = "prefixes"
    /\ clock \in StartTimes
    /\ windowMs \in WindowChoices
    /\ max = 0
    /\ skipSuccessfulRequests = FALSE
    /\ skipFailedRequests = FALSE
    /\ nodeEnv = None
    /\ req \in PrefixRequests
    /\ binding = None
    /\ InitStores
    /\ InitProcs

\* createStandardWidgetRateLimiter(kv, environment) outside development
InitWidget ==
    /\ variant = "widget"
    /\ InitEdge
    /\ clock \in StartTimes
    /\ nodeEnv \in Environments \ {"development"}
    /\ windowMs = WidgetWindowMs
    /\ max = 0
    /\ skipSuccessfulRequests = FALSE
    /\ skipFailedRequests = TRUE
    /\ InitStores
    /\ InitProcs

\* env(c) of the wrapper: RATE_LIMIT_KV is bound or not
Bindings == {"absent", "present"}
InitGuard ==
    /\ variant = "guard"
    /\ clock \in StartTimes
    /\ windowMs \in WindowChoices
    /\ max = 0
    /\ skipSuccessfulRequests = FALSE
    /\ skipFailedRequests = TRUE
    /\ nodeEnv = None
    /\ req = NoRequest
    /\ binding \in Bindings
    /\ InitStores
    /\ InitProcs

NextLimiter ==
    \/ \E p \in Procs, k \in Keys : Enter(p, k)
    \/ \E p \in Procs, s \in Statuses : Returned(p, s)
    \/ \E p \in Procs, e \in Errors : Throws(p, e)
    \/ \E p \in Procs, s \in Statuses : Threw(p, s)
    \/ \E t \in Instants : Tick(t)

\* the callers of SpecKV overlap on one key
SharedKeys == {"ip1"}

NextKV ==
    \/ \E p \in Procs, k \in SharedKeys : Get(p, k)
    \/ \E p \in Procs, k \in SharedKeys : IncrementGet(p, k)
    \/ \E p \in Procs : IncrementPut(p)
    \/ \E p \in Procs, k \in SharedKeys : DecrementGet(p, k)
    \/ \E p \in Procs : DecrementPut(p)
    \/ \E p \in Procs, k \in SharedKeys : ResetKey(p, k)
    \/ \E t \in Instants : Tick(t)

\* increment(key) called again and again, each call after the one before ended
NextSerial ==
    \/ \E p \in Procs, k \in Keys : IncrementGet(p, k)
    \/ \E p \in Procs : IncrementPut(p)
    \/ \E t \in Instants : Tick(t)

\* the requests of a burst: all of them arrive at the same Date.now()
NextRoute ==
    \/ \E p \in Procs, k \in Keys : RouteEnter(p, k)
    \/ \E p \in Procs, s \in Statuses : RouteReturned(p, s)
    \/ \E p \in Procs, s \in Statuses, e \in Errors : RouteThrew(p, s, e)

\* the callers of SpecStore use every key, each of them in calls of its own
\* that overlap with the calls of the other; time passes between calls
NextStore ==
    \/ \E p \in Procs, k \in Keys : Get(p, k)
    \/ \E p \in Procs, k \in Keys : IncrementGet(p, k)
    \/ \E p \in Procs : IncrementPut(p)
    \/ \E p \in Procs, k \in Keys : DecrementGet(p, k)
    \/ \E p \in Procs : DecrementPut(p)
    \/ \E p \in Procs, k \in Keys : ResetKey(p, k)
    \/ \E t \in Instants : (\A q \in Procs : pc[q] = "idle") /\ Tick(t)

\* increment(key) called by several callers at once, and by nobody else
NextRace ==
    \/ \E p \in Procs, k \in SharedKeys : IncrementGet(p, k)
    \/ \E p \in Procs : IncrementPut(p)
    \/ \E t \in Instants : Tick(t)

\* callers that take back, with decrement(key), the increment(key) they made
NextRequest ==
    \/ \E p \in Procs, k \in SharedKeys : IncrementGet(p, k)
    \/ \E p \in Procs : IncrementPut(p)
    \/ \E p \in Procs, k \in SharedKeys : DecrementGet(p, k)
    \/ \E p \in Procs : DecrementPut(p)
    \/ \E p \in Procs : Keep(p)
    \/ \E t \in Instants : Tick(t)

\* the requests of one client in one window
NextWidget ==
    \/ \E r \in WidgetReferers, u \in WidgetUserAgents : WidgetAdmit(r, u)
    \/ \E r \in WidgetReferers, u \in WidgetUserAgents : WidgetReject(r, u)

NextKeys == Generate

NextPrefixes ==
    \/ Generate
    \/ \E rq \in PrefixRequests : Arrive(rq)

NextGuard ==
    \/ \E p \in Procs, v \in BOOLEAN, r \in GuardReferers : GuardArrive(p, v, r)
    \/ \E p \in Procs : ProbeOk(p)
    \/ \E p \in Procs : ProbeFails(p)
    \/ \E p \in Procs, o \in LimiterOutcomes : Limiter(p, o)
    \/ \E p \in Procs, st \in Statuses : DownstreamReturns(p, st)
    \/ \E p \in Procs, e \in Errors : DownstreamThrows(p, e)
    \/ \E p \in Procs : LimiterReturns(p)
    \/ \E p \in Procs : LimiterFaultAfter(p)

SpecKeys == InitKeys /\ [][NextKeys]_vars
SpecWidget == InitWidget /\ [][NextWidget]_vars
SpecPrefixes == InitPrefixes /\ [][NextPrefixes]_vars
SpecGuard == InitGuard /\ [][NextGuard]_vars
SpecLimiter == InitLimiter /\ [][NextLimiter]_vars
SpecKV == InitKV /\ [][NextKV]_vars
SpecStore == InitKV /\ [][NextStore]_vars
SpecRace == InitKV /\ [][NextRace]_vars
SpecRequest == InitRequest /\ [][NextRequest]_vars
SpecSerial == InitSerial /\ [][NextSerial]_vars
SpecRoute == InitRoute /\ [][NextRoute]_vars

\* both backends, each with requests or calls for every key
InitBackends == InitLimiter \/ InitKV
NextBackends ==
    \/ \E p \in Procs, k \in Keys : Enter(p, k)
    \/ \E p \in Procs, s \in Statuses : Returned(p, s)
    \/ \E p \in Procs, e \in Errors : Throws(p, e)
    \/ \E p \in Procs, s \in Statuses : Threw(p, s)
    \/ \E p \in Procs, k \in Keys : Get(p, k)
    \/ \E p \in Procs, k \in Keys : IncrementGet(p, k)
    \/ \E p \in Procs : IncrementPut(p)
    \/ \E p \in Procs, k \in Keys : DecrementGet(p, k)
    \/ \E p \in Procs : DecrementPut(p)
    \/ \E p \in Procs, k \in Keys : ResetKey(p, k)
    \/ \E t \in Instants :
          (variant = "kv" => \A q \in Procs : pc[q] = "idle") /\ Tick(t)
SpecBackends == InitBackends /\ [][NextBackends]_vars

Init == InitLimiter \/ InitKV
Next == NextLimiter \/ NextKV
Spec == Init /\ [][Next]_vars

-----------------------------------------------------------------------------
\* Properties

NoSkipPolicy == ~skipSuccessfulRequests /\ ~skipFailedRequests

\* C1: with a limit max >= 1 and no skip policy, of the requests that arrive
\* for one key inside one window, each after the one before was answered, the
\* k-th (k <= max) is admitted and answered with X-RateLimit-Remaining = max - k,
\* and the one that comes after max admitted ones is rejected with 429 and
\* X-RateLimit-Remaining 0.  res.ord is the number of requests admitted on the
\* window's record up to and including this one (before this one, for a
\* rejection); res.solo says no other request of the key was in flight with it.
C1_SequentialRemaining ==
    NoSkipPolicy =>
        /\ res.kind = "rejected" =>
              /\ res.ord = max
              /\ res.status = TooManyRequests
              /\ res.remaining = 0
        /\ res.kind \in {"ok", "error"} => res.ord \in 1..max
        /\ (res.kind = "ok" /\ res.solo) => res.remaining = max - res.ord

\* the last request the limit allows was answered with Remaining 0
C1_Witness ==
    /\ NoSkipPolicy
    /\ max >= 2
    /\ res.kind = "ok" /\ res.solo
    /\ res.ord = max /\ res.remaining = 0

\* C2: outside development the phone validation route lets a client IP through
\* at most RouteMax (10) times in its window of 15 minutes; served counts the
\* requests of a key that reached the handler and stayed counted.
C2_RouteHoldsClientToLimit ==
    ~IsDevelopment(nodeEnv) => \A k \in Keys : served[k] <= RouteMax

\* C3: WorkersKVStore.get gives no record once the resetTime of the stored
\* record has passed, even while KV still holds the entry: a record it returns
\* has a resetTime that is not before the instant of the call.
C3_GetAbsentAfterWindowEnd ==
    (ret.op = "get" /\ ret.value.defined) => ret.value.resetTime >= ret.at

\* C4: a call of WorkersKVStore.increment that finds no record, or a record
\* whose resetTime is not after the call's now, returns and puts totalHits 1
\* with resetTime now + windowMs; one that finds a record whose resetTime is
\* after now returns and puts totalHits one higher with the same resetTime.
\* What the call found is what KV held under the prefixed key when it asked.
C4_IncrementResult ==
    [][\A p \in Procs :
        /\ (pc[p] = "idle" /\ pc'[p] = "increment") =>
              LET stored == namespace[PrefixKey(key'[p])]
              IN  /\ now'[p] = clock
                  /\ existing'[p].defined <=> stored.present
                  /\ stored.present =>
                        /\ existing'[p].totalHits = stored.value.totalHits
                        /\ existing'[p].resetTime =
                              stored.value.resetTime.s * MsPerSecond
                                 + stored.value.resetTime.ms
        /\ (pc[p] = "increment" /\ pc'[p] = "idle") =>
              LET ex == existing[p]
                  t == now[p]
                  put == namespace'[PrefixKey(key[p])]
                  expected ==
                      IF ~ex.defined \/ ex.resetTime <= t
                      THEN [defined |-> TRUE, totalHits |-> 1,
                            resetTime |-> t + windowMs]
                      ELSE [defined |-> TRUE, totalHits |-> ex.totalHits + 1,
                            resetTime |-> ex.resetTime]
              IN  /\ ret'.op = "increment"
                  /\ ret'.value = expected
                  /\ put.present =>
                        /\ put.value.totalHits = expected.totalHits
                        /\ put.value.resetTime.s * MsPerSecond
                              + put.value.resetTime.ms = expected.resetTime
                  /\ ~put.present => clock >= ret'.expiration * MsPerSecond
    ]_vars

\* increment counted on a live record and kept its resetTime, and KV holds it
C4_Witness ==
    /\ ret.op = "increment"
    /\ ret.value.totalHits = 2
    /\ ret.value.resetTime < ret.at + windowMs
    /\ namespace[PrefixKey(ret.key)].present
    /\ namespace[PrefixKey(ret.key)].value.totalHits = 2

\* C5: every entry WorkersKVStore puts carries an expiration, in whole seconds,
\* that is at least 60 seconds after the now of the call that put it.
C5_ExpirationAtLeastSixtySeconds ==
    ret.expiration # 0 =>
        ret.expiration * MsPerSecond >= ret.at + MinExpirationMs

\* C6: no record of the in-memory limiter and no entry of WorkersKVStore ever
\* has a count below 0, and a decrement that finds a live entry with totalHits 0
\* puts it back with totalHits 0.
C6_CountNeverNegative ==
    /\ \A id \in DOMAIN heap : heap[id].count >= 0
    /\ \A sk \in StoredKeys :
          namespace[sk].present => namespace[sk].value.totalHits >= 0
    /\ ret.value.defined => ret.value.totalHits >= 0

\* a decrement found a live entry with totalHits 0 and put totalHits 0 back
C6_Witness ==
    /\ ret.op = "decrement"
    /\ ret.expiration # 0
    /\ ret.value.totalHits = 0
    /\ namespace[PrefixKey(ret.key)].present
    /\ namespace[PrefixKey(ret.key)].value.totalHits = 0

\* C7: a call of WorkersKVStore.decrement that finds no record, or a record
\* whose resetTime is not after now, leaves KV as it is: it puts and deletes
\* nothing.
C7_DecrementNoOpWhenAbsentOrExpired ==
    [][\A p \in Procs :
        (/\ pc[p] = "decrement" /\ pc'[p] = "idle"
         /\ ~(existing[p].defined /\ existing[p].resetTime > clock))
        => /\ namespace' = namespace
           /\ ret'.expiration = 0
    ]_vars

\* a decrement ended without a put while KV held an entry of its key whose
\* resetTime had passed
C7_Witness ==
    /\ ret.op = "decrement"
    /\ ret.expiration = 0
    /\ namespace[PrefixKey(ret.key)].present
    /\ namespace[PrefixKey(ret.key)].value.resetTime.s * MsPerSecond
          + namespace[PrefixKey(ret.key)].value.resetTime.ms <= ret.at

\* C8: after n calls of increment(k) made one after another inside one window,
\* with no entry of k dropped by KV and no decrement or resetKey in between,
\* get(k) gives totalHits n as long as the window lasts.
C8_SequentialIncrementsCount ==
    \A k \in Keys :
        (/\ streak[k].n > 0
         /\ clock < streak[k].end
         /\ \A p \in Procs : pc[p] = "idle")
        => /\ StoreGet(namespace, k).defined
           /\ StoreGet(namespace, k).totalHits = streak[k].n
           /\ StoreGet(namespace, k).resetTime = streak[k].end

\* two calls in a row were counted and the window they fell in is still open
C8_Witness ==
    \E k \in Keys :
        /\ streak[k].n = 2
        /\ clock < streak[k].end
        /\ \A p \in Procs : pc[p] = "idle"
        /\ StoreGet(namespace, k).totalHits = 2

\* C9: a request the limiter rejects ends there: it does not go on to the
\* downstream handler, and when the key had a live record its count and
\* resetTime are what they were.
C9_RejectionIsTerminal ==
    [][res'.kind = "rejected" =>
        /\ pc' = pc
        /\ LET k == res'.key
           IN  (store[k] # NoRecord /\ ~(clock > heap[store[k]].resetTime)) =>
                  /\ store'[k] = store[k]
                  /\ heap'[store'[k]].count = heap[store[k]].count
                  /\ heap'[store'[k]].resetTime = heap[store[k]].resetTime
    ]_vars

\* a request was rejected and the key's record stands at the limit
C9_Witness ==
    /\ res.kind = "rejected"
    /\ store[res.key] # NoRecord
    /\ heap[store[res.key]].count = max
    /\ \A p \in Procs : pc[p] = "idle"

\* C10: every 429 of the limiter carries a retryAfter greater than 0.
C10_RetryAfterPositive ==
    res.kind = "rejected" => res.retryAfter > 0

\* C11: the body of a 429 gives the limiter's configuration as it was passed:
\* limit is max and windowMs is the windowMs option, in milliseconds; and
\* retryAfter is the time left until the record's resetTime, in whole seconds
\* rounded up.
C11_BodyReportsConfiguration ==
    res.kind = "rejected" =>
        /\ res.limit = max
        /\ res.windowMs = windowMs
        /\ res.retryAfter =
              -((-(heap[store[res.key]].resetTime - clock)) \div MsPerSecond)

\* C12: with skipFailedRequests set, an admitted request whose downstream
\* handler ends with a response status of 400 or more, or throws, is taken off
\* the count when it completes: the count of its record is one less than it
\* was while the request was in flight.
C12_FailedRequestsUncounted ==
    [][\A p \in Procs :
        (/\ skipFailedRequests
         /\ pc[p] = "downstream" /\ pc'[p] = "idle"
         /\ res'.kind = "error" \/ res'.status >= ErrorStatusFloor
         /\ record[p] \in DOMAIN heap')
        => heap'[record[p]].count = heap[record[p]].count - 1
    ]_vars

\* C13: when await next() throws, the catch block does its skipFailedRequests
\* accounting (count-- when skipFailedRequests is set and c.res.status is 400
\* or more, nothing otherwise) and throws the very error it caught: once the
\* error has reached the caller the accounting is done, and no other outcome
\* than that error is possible.
C13_AccountingThenSameError ==
    [][\A p \in Procs :
        (pc[p] = "downstream" /\ error[p] # None /\ pc'[p] = "idle")
        => /\ res'.kind = "error"
           /\ res'.error = error[p]
           /\ record[p] \in DOMAIN heap' =>
                 heap'[record[p]].count =
                    heap[record[p]].count
                       - (IF skipFailedRequests /\ res'.status >= ErrorStatusFloor
                          THEN 1 ELSE 0)
    ]_vars

\* a TypeError of the handler reached the caller after the request was taken
\* off the count of its record, which is still the record of the key
C13_Witness ==
    /\ skipFailedRequests
    /\ res.kind = "error"
    /\ res.error = "TypeError"
    /\ res.status = 400
    /\ store[res.key] # NoRecord
    /\ heap[store[res.key]].count = 0

\* C14: the response of every request the limiter admitted carries
\* X-RateLimit-Limit = max, X-RateLimit-Remaining = max(0, max - count), which
\* is never negative, and X-RateLimit-Reset = resetTime in epoch seconds,
\* whether the downstream handler returned or threw.
C14_HeadersOnEveryAdmitted ==
    res.kind \in {"ok", "error"} =>
        /\ res.limit = max
        /\ res.remaining >= 0
        /\ res.remaining <= max
        /\ res.reset > 0

\* C15: without a RATE_LIMIT_KV binding phoneValidationRateLimit passes every
\* request to the handler: it never probes or calls the limiter, never answers
\* 429, sets no rate-limit header, and the only error that can leave it is one
\* the handler threw.
C15_NoBindingBypasses ==
    binding = "absent" =>
        \A p \in Procs :
            /\ pc[p] \in {"idle", "bypass", "fallback"}
            /\ guard[p].outcome # "rejected"
            /\ ~guard[p].headers
            /\ ~guard[p].metered
            /\ guard[p].outcome # "none" => guard[p].calls >= 1
            /\ guard[p].outcome = "error" =>
                  guard[p].threw /\ guard[p].error \in Errors

\* without a binding and outside Vite a request got the handler's response
\* through the logged bypass
C15_Witness ==
    /\ binding = "absent"
    /\ \E p \in Procs :
          /\ ~guard[p].vite
          /\ guard[p].outcome = "ok"
          /\ guard[p].calls = 1
          /\ guard[p].logged

\* C16: in phoneValidationRateLimit a failed KV operation, be it the probe or
\* an operation of the limiter's store before or after the request was passed
\* on, never shows to the caller: the request ends with the result of the
\* handler, which ran once for it, and is never answered with an error of the
\* rate limiting.
C16_StoreFailureNeverSurfaces ==
    \A p \in Procs :
        (guard[p].fault /\ ~guard[p].threw /\ guard[p].outcome # "none")
        => /\ guard[p].outcome = "ok"
           /\ guard[p].calls = 1

\* C17: a request whose Referer is absent or is no URL is still metered by the
\* widget-aware limiter: when the binding is there, the probe and the store
\* work and the handler does not throw, the request is counted by the limiter
\* and is not failed.
C17_UnparsableRefererStillMetered ==
    \A p \in Procs :
        (/\ binding = "present"
         /\ ~guard[p].vite /\ ~guard[p].fault /\ ~guard[p].threw
         /\ guard[p].outcome # "none"
         /\ \/ ~guard[p].referer.present
            \/ ~Parsable(guard[p].referer.text))
        => /\ guard[p].metered
           /\ guard[p].outcome # "error"

\* the request's Referer holds the trusted domain name, its User-Agent one of
\* the bot words in any case
TrustedRefererFlag ==
    req.referer.present /\ \E i \in DOMAIN req.referer.text :
                              req.referer.text[i] = TrustedDomain
BotFlag ==
    req.userAgent.present /\ \E i \in DOMAIN req.userAgent.text :
                                LowerCase(req.userAgent.text[i]) \in BotWords

\* C18: the limit of the widget-aware limiters is 500 in development whatever
\* the request; elsewhere 100 for a trusted referer without bot user agent, 5
\* for a bot user agent also with a trusted referer, 20 for the rest; and
\* 5 < 20 < 100 <= 500.
C18_LimitPolicy ==
    /\ BotLimit < GenericLimit /\ GenericLimit < TrustedLimit
    /\ TrustedLimit <= DevelopmentLimit
    /\ out.made =>
          out.limit =
             IF req.environment = "development" THEN 500
             ELSE IF TrustedRefererFlag /\ ~BotFlag THEN 100
             ELSE IF BotFlag THEN 5
             ELSE 20

\* in production a bot that names the trusted domain in its Referer got 5
C18_Witness ==
    /\ out.made
    /\ req.environment = "production"
    /\ TrustedRefererFlag /\ BotFlag
    /\ out.limit = 5

\* C19: every key generator of the repository takes the client IP the same
\* way, from CF-Connecting-IP, else the first entry of X-Forwarded-For, else
\* X-Real-IP, else 'unknown': the IP part of a key is never empty and never a
\* list of several addresses.
C19_SameClientIPEverywhere ==
    LET clientIP == IF req.cf.present THEN req.cf.text
                    ELSE IF req.xff.present THEN <<req.xff.text[1]>>
                    ELSE IF req.xreal.present THEN req.xreal.text
                    ELSE <<"unknown">>
    IN  out.made =>
           /\ out.defaultKey = clientIP
           /\ out.routeKey = clientIP
           /\ out.standardKey = clientIP
           /\ out.advancedKey.clientIP = clientIP
           /\ out.widgetKey.thrown = None => out.widgetKey.clientIP = clientIP

\* C20: advancedKeyGenerator gives 'widget:<clientIP>' exactly when the host of
\* the Referer is the trusted domain or a subdomain of it, and
\* 'api:<clientIP>' otherwise, also when the Referer only names the trusted
\* domain in its path or query.
C20_WidgetPrefixOnlyForTrustedHost ==
    LET host == IF req.referer.present /\ Parsable(req.referer.text)
                THEN Hostname(req.referer.text) ELSE <<>>
        trusted == host # <<>> /\ host[Len(host)] = TrustedDomain
        clientIP == IF req.cf.present THEN req.cf.text
                    ELSE IF req.xff.present THEN <<req.xff.text[1]>>
                    ELSE IF req.xreal.present THEN req.xreal.text
                    ELSE <<"unknown">>
    IN  out.made =>
           /\ out.advancedKey.prefix = IF trusted THEN "widget" ELSE "api"
           /\ out.advancedKey.clientIP = clientIP

\* C21: resetKey(key) leaves no entry under the key, whatever was there: right
\* after it get(key) gives undefined, an increment(key) begun then or at any
\* later instant returns totalHits 1 with resetTime its own now + windowMs, and
\* the entries of all other keys are as they were.
C21_ResetKeyDeletes ==
    [][ret'.op = "resetKey" =>
          LET k == ret'.key
          IN  /\ ~StoreGet(namespace', k).defined
              /\ \A t \in {clock'} \cup {i \in Instants : i > clock'} :
                    IncrementData(StoreGet(Purged(namespace', t), k), t, windowMs)
                        = Data(1, t + windowMs)
              /\ \A o \in Keys \ {k} :
                    namespace'[PrefixKey(o)] = namespace[PrefixKey(o)]]_vars

\* resetKey ended while another key had a record
C21_Witness ==
    /\ ret.op = "resetKey"
    /\ \E o \in Keys \ {ret.key} : namespace[PrefixKey(o)].present

\* C22: no increment of a live key is lost when calls of increment(key)
\* overlap: a call that read a live record of the key and ends while KV holds
\* a live record of it leaves
\* the stored count one above what it was, so the count never goes down in the
\* window and ends at the count before plus the number of calls.
C22_NoIncrementLost ==
    [][\A p \in Procs :
          (/\ pc[p] = "increment" /\ pc'[p] = "idle"
           /\ existing[p].defined /\ existing[p].resetTime > now[p]) =>
              LET sk == PrefixKey(key[p])
                  before == namespace[sk]
              IN  (before.present /\ DateOf(before.value.resetTime) > clock) =>
                      /\ namespace'[sk].present
                      /\ namespace'[sk].value.totalHits = before.value.totalHits + 1]_vars

\* C23: the retry guidance of a 429 is sufficient: a request of the same key
\* that arrives retryAfter seconds after the rejected one, or at any later
\* instant, is admitted into a new window, with count 1 and resetTime its own
\* arrival time + windowMs.
C23_RetryGuidanceSufficient ==
    res.kind = "rejected" =>
        LET k == res.key
            earliest == clock + res.retryAfter * MsPerSecond
        IN  \A t \in {earliest} \cup {i \in Instants : i >= earliest} :
                LET st == Cleaned(store, heap, k, t)
                    rec == IF st[k] = NoRecord THEN NewRecord(t, windowMs)
                           ELSE heap[st[k]]
                    in == Intake(rec, max)
                IN  /\ in.admitted
                    /\ in.record.count = 1
                    /\ in.record.resetTime = t + windowMs

\* C24: a request whose URL names the Vite dev server is forwarded downstream
\* and no operation on RATE_LIMIT_KV is ever issued for it: it is never at the
\* probe nor in the limiter, whether the binding is there or not.
C24_ViteDevTouchesNoStore ==
    \A p \in Procs :
        guard[p].vite =>
            /\ guard[p].ops = 0
            /\ ~guard[p].metered
            /\ guard[p].calls >= 1
            /\ pc[p] \notin {"probe", "limiter", "forwarded", "settle"}

\* a Vite dev request was answered while RATE_LIMIT_KV was bound
C24_Witness ==
    \E p \in Procs :
        /\ guard[p].vite
        /\ binding = "present"
        /\ pc[p] = "idle"
        /\ guard[p].outcome = "ok"

\* C25: requests for different keys are independent: a step of the limiter or
\* of WorkersKVStore made for one key leaves the record of every other key as
\* it was, in the store, on the heap and in the KV namespace, whatever else is
\* in flight.  (Only the passing of time lets KV drop entries by itself.)
C25_OtherKeysUntouched ==
    [][clock' = clock =>
          LET movers == {p \in Procs : pc'[p] # pc[p] \/ error'[p] # error[p]}
              handled == {key[p] : p \in movers} \cup {key'[p] : p \in movers}
                            \cup {res'.key, ret'.key}
          IN  \A o \in Keys \ handled :
                  /\ store'[o] = store[o]
                  /\ \A id \in DOMAIN heap :
                        id[1] = o => (id \in DOMAIN heap' /\ heap'[id] = heap[id])
                  /\ \A id \in DOMAIN heap' : id[1] = o => id \in DOMAIN heap
                  /\ namespace'[PrefixKey(o)] = namespace[PrefixKey(o)]]_vars

\* a request was admitted into a record made at this instant while the store
\* still holds an expired record of another key
C25_Witness ==
    \E p \in Procs :
        /\ pc[p] = "downstream"
        /\ record[p] = <<key[p], clock>>
        /\ \E o \in Keys \ {key[p]} :
              /\ store[o] # NoRecord
              /\ Expired(heap[store[o]], clock)

\* C26: the stored key, prefix followed by generated key, of two requests that
\* share one KV namespace is the same only when both are handled by the same
\* factory in the same tier, whatever their headers.
C26_NoStoredKeyCollision ==
    out.made =>
        \A f, g \in Factories :
            (/\ out.fullKey[f] # NoFullKey
             /\ out.fullKey[f] = FullKey(g, req)) =>
                (f = g /\ out.tier = req.environment)

\* C27: the in-memory limiter and WorkersKVStore agree on every record at
\* every instant, the instant of resetTime included: counting one more request
\* on a record of the store gives the count and the resetTime that
\* WorkersKVStore.increment gives for the same record at the same now.
C27_BackendsAgreeOnWindow ==
    \A k \in Keys :
        store[k] # NoRecord =>
            LET rec == heap[store[k]]
                inMemory == IF Expired(rec, clock)
                            THEN Counted(NewRecord(clock, windowMs))
                            ELSE Counted(rec)
                inKV == IncrementData(Data(rec.count, rec.resetTime), clock, windowMs)
            IN  /\ inMemory.count = inKV.totalHits
                /\ inMemory.resetTime = inKV.resetTime

\* C28: in the in-memory limiter no record ever counts more than max, whether
\* it is still in the store or only held by a request in flight, whatever the
\* skip policy and however the requests overlap.
C28_CountAtMostLimit ==
    \A id \in DOMAIN heap : heap[id].count <= max

\* a record of the store is at max while two requests counted on it are in
\* flight under a skip policy
C28_Witness ==
    /\ skipSuccessfulRequests \/ skipFailedRequests
    /\ \E k \in Keys :
          /\ store[k] # NoRecord
          /\ heap[store[k]].count = max
          /\ \A p \in Procs : pc[p] = "downstream" /\ record[p] = store[k]

\* C29: phoneValidationRateLimit invokes next() at most once for a request, on
\* every path: also when the handler throws, and when the limiter fails after
\* it has forwarded the request.
C29_NextAtMostOnce ==
    \A p \in Procs : guard[p].calls <= 1

\* C30: a decrement only takes back the increment of its own request: when the
\* window a request was counted in is over and decrement(key), called for that
\* request, finds the record of a later window of the key, it writes no count
\* below the one it found.
C30_DecrementOnlyOwnWindow ==
    [][\A p \in Procs :
          (/\ pc[p] = "decrement" /\ pc'[p] = "idle"
           /\ record[p][2] <= clock
           /\ existing[p].defined
           /\ existing[p].resetTime > record[p][2]) =>
              (ret'.value.defined => ret'.value.totalHits >= existing[p].totalHits)]_vars

\* C31: the window is fixed: no step of a request or of a store call changes
\* the resetTime of a live record.  In the in-memory limiter a record object
\* keeps its resetTime and the store only takes a new record for a key whose
\* record is expired or missing; in WorkersKVStore a put over a live record
\* keeps its resetTime.
C31_WindowIsFixed ==
    [][clock' = clock =>
          /\ \A id \in DOMAIN heap \cap DOMAIN heap' :
                heap'[id].resetTime = heap[id].resetTime
          /\ \A k \in Keys :
                (store[k] # NoRecord /\ store'[k] # store[k]) =>
                    Expired(heap[store[k]], clock)
          /\ \A k \in Keys :
                LET before == namespace[PrefixKey(k)]
                    after == namespace'[PrefixKey(k)]
                IN  (/\ before.present
                     /\ DateOf(before.value.resetTime) > clock
                     /\ after.present) =>
                        after.value.resetTime = before.value.resetTime]_vars

\* C32: in the widget-aware limiters two requests with the same composite key
\* (environment, client IP, referer hostname, bot flag) are given the same
\* limit, so that the one counter of the key is held to one ceiling.
C32_OneLimitPerKey ==
    (/\ out.made
     /\ out.widgetKey.thrown = None
     /\ out.widgetKey = WidgetKey(req)) =>
        out.limit = WidgetLimit(req)

\* C33: outside development the requests of one client IP that are counted
\* in one window never number more than the highest ceiling of those tiers,
\* whatever Referer and User-Agent the client sends.
C33_ClientHeldToHighestCeiling ==
    CountedFor(heap, ClientIP) <= TrustedLimit

=============================================================================
